---- MODULE Spec2Model ----
(***************************************************************************)
(* Model of examples/python_client.py: the job lifecycle client            *)
(* (MapsScraperClient: submit_job, wait_for_job, download_csv,             *)
(* fetch_places) and the part of the row decoder (MapsResult.from_csv_row) *)
(* that fetch_places runs on the downloaded rows.                          *)
(*                                                                         *)
(* Spec is one fetch_places call; PollSpec is wait_for_job called on its   *)
(* own with a poll interval; DecoderSpec is from_csv_row applied to a row; *)
(* ConcSpec is two fetch_places calls interleaved on one client.           *)
(*                                                                         *)
(* Texts (response bodies, csv cells) are TLA+ strings and are parsed      *)
(* character by character, as json.loads / float() do.  Python values are  *)
(* tagged records: [t |-> "str", s |-> ...], [t |-> "num", n |-> ...],     *)
(* [t |-> "null"], [t |-> "bool", b |-> ...], [t |-> "list", l |-> ...],   *)
(* [t |-> "obj", m |-> function from key strings to values].               *)
(***************************************************************************)
EXTENDS Integers, Sequences, FiniteSets, TLC

(* ---------------------------- bounds ----------------------------------- *)
\* largest total timeout (timeout_s) a client is constructed with
MaxTimeout == 5
\* largest time a single network call takes
MaxLatency == 1
\* largest star count (key) of a rating histogram that is encoded
MaxStars == 2
\* largest count (value) of a rating histogram that is encoded
MaxCount == 1
\* largest poll interval (poll_s) wait_for_job is called with on its own
MaxPoll == 3

(* ----------------------- program constants ----------------------------- *)
\* wait_for_job(..., poll_s: int = 5); fetch_places passes no poll_s
poll_s == 5

(* ------------------------- text helpers -------------------------------- *)
\* s[i] as a one-character string, "" past the end
At(s, i) == IF i >= 1 /\ i <= Len(s) THEN SubSeq(s, i, i) ELSE ""

Digits == {"0", "1", "2", "3", "4", "5", "6", "7", "8", "9"}

DigitVal(c) ==
  CASE c = "0" -> 0 [] c = "1" -> 1 [] c = "2" -> 2 [] c = "3" -> 3
    [] c = "4" -> 4 [] c = "5" -> 5 [] c = "6" -> 6 [] c = "7" -> 7
    [] c = "8" -> 8 [] c = "9" -> 9

\* whitespace json.loads skips between tokens
JsonWs == {" ", "\t", "\n", "\r"}

RECURSIVE SkipWs(_, _)
SkipWs(s, i) == IF At(s, i) \in JsonWs THEN SkipWs(s, i + 1) ELSE i

\* does s carry the literal lit at position i
HasAt(s, i, lit) ==
  /\ i + Len(lit) - 1 <= Len(s)
  /\ SubSeq(s, i, i + Len(lit) - 1) = lit

(* ------------------------- json.loads ---------------------------------- *)
\* Parse results: [ok |-> FALSE] or [ok |-> TRUE, val |-> v, pos |-> next].
\* Numbers are integers (optional '-', digits); string escapes are \" and \\.
Fail == [ok |-> FALSE]

RECURSIVE ScanString(_, _, _)
\* i is past the opening quote; acc is the decoded text so far
ScanString(s, i, acc) ==
  IF At(s, i) = "" THEN Fail
  ELSE IF At(s, i) = "\"" THEN [ok |-> TRUE, val |-> acc, pos |-> i + 1]
  ELSE IF At(s, i) = "\\" THEN
    IF At(s, i + 1) \in {"\"", "\\"}
      THEN ScanString(s, i + 2, acc \o At(s, i + 1))
      ELSE Fail
  ELSE IF At(s, i) \in {"\n", "\t", "\r"} THEN Fail
  ELSE ScanString(s, i + 1, acc \o At(s, i))

RECURSIVE ScanDigits(_, _, _)
\* returns <<value, next position>>
ScanDigits(s, i, acc) ==
  IF At(s, i) \in Digits
    THEN ScanDigits(s, i + 1, 10 * acc + DigitVal(At(s, i)))
    ELSE <<acc, i>>

\* d is the digit run that starts at j
NumberValue(neg, d) ==
  [ok |-> TRUE, val |-> [t |-> "num", n |-> IF neg THEN 0 - d[1] ELSE d[1]],
   pos |-> d[2]]

NumberFrom(s, j, neg) ==
  IF At(s, j) \notin Digits THEN Fail
  \* JSON forbids a leading zero followed by digits
  ELSE IF At(s, j) = "0" /\ At(s, j + 1) \in Digits THEN Fail
  ELSE NumberValue(neg, ScanDigits(s, j, 0))

ScanNumber(s, i) ==
  IF At(s, i) = "-" THEN NumberFrom(s, i + 1, TRUE) ELSE NumberFrom(s, i, FALSE)

\* dict assignment d[k] = v: a repeated key keeps the last value
DictPut(m, k, v) ==
  [x \in (DOMAIN m) \cup {k} |-> IF x = k THEN v ELSE m[x]]

EmptyDict == [x \in {} |-> 0]

RECURSIVE ParseValue(_, _)
RECURSIVE ParseMembers(_, _, _)
RECURSIVE ParseElements(_, _, _)

\* after a member's value: e is at the next non-blank character
MemberNext(s, e, acc) ==
  IF At(s, e) = "}"
    THEN [ok |-> TRUE, val |-> [t |-> "obj", m |-> acc], pos |-> e + 1]
  ELSE IF At(s, e) = "," THEN ParseMembers(s, SkipWs(s, e + 1), acc)
  ELSE Fail

MemberValue(s, key, v, acc) ==
  IF ~v.ok THEN Fail
  ELSE MemberNext(s, SkipWs(s, v.pos), DictPut(acc, key, v.val))

MemberColon(s, key, j, acc) ==
  IF At(s, j) # ":" THEN Fail
  ELSE MemberValue(s, key, ParseValue(s, SkipWs(s, j + 1)), acc)

MemberKey(s, k, acc) ==
  IF ~k.ok THEN Fail ELSE MemberColon(s, k.val, SkipWs(s, k.pos), acc)

\* i is at the first non-blank character of a "key": value pair
ParseMembers(s, i, acc) ==
  IF At(s, i) # "\"" THEN Fail
  ELSE MemberKey(s, ScanString(s, i + 1, ""), acc)

\* after a list element: e is at the next non-blank character
ElementNext(s, e, acc) ==
  IF At(s, e) = "]"
    THEN [ok |-> TRUE, val |-> [t |-> "list", l |-> acc], pos |-> e + 1]
  ELSE IF At(s, e) = "," THEN ParseElements(s, SkipWs(s, e + 1), acc)
  ELSE Fail

ElementValue(s, v, acc) ==
  IF ~v.ok THEN Fail ELSE ElementNext(s, SkipWs(s, v.pos), Append(acc, v.val))

\* i is at the first non-blank character of a list element
ParseElements(s, i, acc) == ElementValue(s, ParseValue(s, i), acc)

\* j is at the first non-blank character after "{"
ObjectFrom(s, j) ==
  IF At(s, j) = "}"
    THEN [ok |-> TRUE, val |-> [t |-> "obj", m |-> EmptyDict], pos |-> j + 1]
    ELSE ParseMembers(s, j, EmptyDict)

\* j is at the first non-blank character after "["
ListFrom(s, j) ==
  IF At(s, j) = "]"
    THEN [ok |-> TRUE, val |-> [t |-> "list", l |-> <<>>], pos |-> j + 1]
    ELSE ParseElements(s, j, <<>>)

StringValue(r) ==
  IF r.ok THEN [ok |-> TRUE, val |-> [t |-> "str", s |-> r.val], pos |-> r.pos]
  ELSE Fail

\* i is at the first non-blank character of a value
ParseValue(s, i) ==
  IF At(s, i) = "{" THEN ObjectFrom(s, SkipWs(s, i + 1))
  ELSE IF At(s, i) = "[" THEN ListFrom(s, SkipWs(s, i + 1))
  ELSE IF At(s, i) = "\"" THEN StringValue(ScanString(s, i + 1, ""))
  ELSE IF HasAt(s, i, "null")
    THEN [ok |-> TRUE, val |-> [t |-> "null"], pos |-> i + 4]
  ELSE IF HasAt(s, i, "true")
    THEN [ok |-> TRUE, val |-> [t |-> "bool", b |-> TRUE], pos |-> i + 4]
  ELSE IF HasAt(s, i, "false")
    THEN [ok |-> TRUE, val |-> [t |-> "bool", b |-> FALSE], pos |-> i + 5]
  ELSE ScanNumber(s, i)

\* the whole text must be one value
WholeText(text, v) ==
  IF v.ok /\ SkipWs(text, v.pos) = Len(text) + 1
    THEN [ok |-> TRUE, val |-> v.val]
    ELSE Fail

\* json.loads(text); [ok |-> FALSE] is JSONDecodeError
json_loads(text) == WholeText(text, ParseValue(text, SkipWs(text, 1)))

(* ------------------------- python values ------------------------------- *)
PyNone == [t |-> "null"]
PyStr(s) == [t |-> "str", s |-> s]
PyInt(n) == [t |-> "num", n |-> n]
PyList(l) == [t |-> "list", l |-> l]
PyDict(m) == [t |-> "obj", m |-> m]
\* a float is neg * mant / 10^scale, or an infinity, or a nan
PyFloat(k, neg, mant, scale) ==
  [t |-> "float", k |-> k, neg |-> neg, mant |-> mant, scale |-> scale]

\* truth value of a str-or-None, as in "if not val"
Truthy(v) == v.t = "str" /\ v.s # ""

(* ---------------------------- float() ---------------------------------- *)
\* whitespace str.strip() and float() remove at both ends
PyWs == {" ", "\t", "\n", "\r"}

RECURSIVE LStrip(_)
LStrip(s) == IF Len(s) > 0 /\ Head(s) \in PyWs THEN LStrip(Tail(s)) ELSE s

RECURSIVE RStrip(_)
RStrip(s) ==
  IF Len(s) > 0 /\ At(s, Len(s)) \in PyWs
    THEN RStrip(SubSeq(s, 1, Len(s) - 1))
    ELSE s

strip(s) == RStrip(LStrip(s))

LowerChar(c) ==
  CASE c = "I" -> "i" [] c = "N" -> "n" [] c = "F" -> "f" [] c = "T" -> "t"
    [] c = "Y" -> "y" [] c = "A" -> "a" [] OTHER -> c

RECURSIVE lower(_)
lower(s) == IF Len(s) = 0 THEN "" ELSE LowerChar(Head(s)) \o lower(Tail(s))

RECURSIVE NormFloat(_, _, _)
\* one representation per value: no trailing zero in the fraction
NormFloat(neg, mant, scale) ==
  IF scale > 0 /\ mant % 10 = 0 THEN NormFloat(neg, mant \div 10, scale - 1)
  ELSE PyFloat("fin", neg, mant, scale)

\* u is the unsigned text, ip its leading digit run, fp the digit run
\* continued past a decimal point (ip itself when there is no point)
FloatDigits(neg, u, ip, fp) ==
  IF fp[2] = Len(u) + 1 /\ fp[2] - 1 - (IF fp[2] > ip[2] THEN 1 ELSE 0) > 0
    THEN [ok |-> TRUE,
          val |-> NormFloat(neg, fp[1], IF fp[2] > ip[2] THEN fp[2] - ip[2] - 1 ELSE 0)]
    ELSE Fail

FloatFraction(neg, u, ip) ==
  IF At(u, ip[2]) = "."
    THEN FloatDigits(neg, u, ip, ScanDigits(u, ip[2] + 1, ip[1]))
    ELSE FloatDigits(neg, u, ip, ip)

FloatUnsigned(neg, u) ==
  IF lower(u) \in {"inf", "infinity"}
    THEN [ok |-> TRUE, val |-> PyFloat("inf", neg, 0, 0)]
  ELSE IF lower(u) = "nan" THEN [ok |-> TRUE, val |-> PyFloat("nan", neg, 0, 0)]
  ELSE FloatFraction(neg, u, ScanDigits(u, 1, 0))

FloatSigned(b) ==
  IF At(b, 1) \in {"+", "-"} THEN FloatUnsigned(At(b, 1) = "-", Tail(b))
  ELSE FloatUnsigned(FALSE, b)

\* float(text): [ok |-> FALSE] is ValueError.  Decimal notation without an
\* exponent part: [sign] digits [. digits] | [sign] . digits | inf | infinity | nan
float(text) == FloatSigned(strip(text))

RECURSIVE Pow10(_)
Pow10(n) == IF n = 0 THEN 1 ELSE 10 * Pow10(n - 1)

\* int(f): truncation toward zero; OverflowError on an infinity, ValueError
\* on a nan
int(f) ==
  IF f.k = "inf" THEN [ok |-> FALSE, exc |-> "OverflowError"]
  ELSE IF f.k = "nan" THEN [ok |-> FALSE, exc |-> "ValueError"]
  ELSE [ok |-> TRUE,
        val |-> PyInt((IF f.neg THEN -1 ELSE 1) * (f.mant \div Pow10(f.scale)))]

(* --------------------------- csv.reader -------------------------------- *)
\* The reader's state machine (excel dialect: delimiter ',', quotechar '"',
\* doublequote, not strict) run over io.StringIO(csv_content), whose lines
\* end at "\n".  EOL is the end-of-line mark the reader feeds itself after
\* each line.  The parser state ps is
\*   [st, field, row, rows, err]: state name, the field and the row being
\*   built, the rows produced so far, and whether csv.Error was raised.
EOL == "EOL"

CsvStart == [st |-> "START_RECORD", field |-> "", row |-> <<>>, rows |-> <<>>,
             err |-> FALSE]

SaveField(ps) == [ps EXCEPT !.row = Append(ps.row, ps.field), !.field = ""]

\* a record is complete: the reader returns its fields and resets
EmitRow(ps) ==
  [ps EXCEPT !.rows = Append(ps.rows, ps.row), !.row = <<>>, !.field = "",
             !.st = "START_RECORD"]

AfterField(ps, c) ==
  IF c = EOL THEN EmitRow(SaveField(ps))
  ELSE [SaveField(ps) EXCEPT !.st = "EAT_CRNL"]

StartField(ps, c) ==
  IF c \in {"\n", "\r", EOL} THEN AfterField(ps, c)
  ELSE IF c = "\"" THEN [ps EXCEPT !.st = "IN_QUOTED_FIELD"]
  ELSE IF c = "," THEN [SaveField(ps) EXCEPT !.st = "START_FIELD"]
  ELSE [ps EXCEPT !.field = ps.field \o c, !.st = "IN_FIELD"]

parse_process_char(ps, c) ==
  IF ps.err THEN ps
  ELSE IF ps.st = "START_RECORD" THEN
    IF c = EOL THEN EmitRow(ps)
    ELSE IF c \in {"\n", "\r"} THEN [ps EXCEPT !.st = "EAT_CRNL"]
    ELSE StartField(ps, c)
  ELSE IF ps.st = "START_FIELD" THEN StartField(ps, c)
  ELSE IF ps.st = "IN_FIELD" THEN
    IF c \in {"\n", "\r", EOL} THEN AfterField(ps, c)
    ELSE IF c = "," THEN [SaveField(ps) EXCEPT !.st = "START_FIELD"]
    ELSE [ps EXCEPT !.field = ps.field \o c]
  ELSE IF ps.st = "IN_QUOTED_FIELD" THEN
    IF c = EOL THEN ps
    ELSE IF c = "\"" THEN [ps EXCEPT !.st = "QUOTE_IN_QUOTED_FIELD"]
    ELSE [ps EXCEPT !.field = ps.field \o c]
  ELSE IF ps.st = "QUOTE_IN_QUOTED_FIELD" THEN
    IF c = "\"" THEN [ps EXCEPT !.field = ps.field \o c, !.st = "IN_QUOTED_FIELD"]
    ELSE IF c = "," THEN [SaveField(ps) EXCEPT !.st = "START_FIELD"]
    ELSE IF c \in {"\n", "\r", EOL} THEN AfterField(ps, c)
    ELSE [ps EXCEPT !.field = ps.field \o c, !.st = "IN_FIELD"]
  ELSE \* EAT_CRNL
    IF c \in {"\n", "\r"} THEN ps
    ELSE IF c = EOL THEN EmitRow(ps)
    \* "new-line character seen in unquoted field"
    ELSE [ps EXCEPT !.err = TRUE]

RECURSIVE CsvLine(_, _, _)
\* feed the characters of the line that starts at i, then EOL; returns
\* <<parser state, start of the next line>>
CsvLine(text, i, ps) ==
  IF i > Len(text) THEN <<parse_process_char(ps, EOL), i>>
  ELSE IF At(text, i) = "\n"
    THEN <<parse_process_char(parse_process_char(ps, "\n"), EOL), i + 1>>
  ELSE CsvLine(text, i + 1, parse_process_char(ps, At(text, i)))

RECURSIVE CsvRun(_, _, _)

\* r is what CsvLine returned for one line
CsvNextLine(text, r) == CsvRun(text, r[2], r[1])

\* line by line, as the reader pulls lines from the StringIO
CsvRun(text, i, ps) ==
  IF i > Len(text) THEN
    IF ps.err \/ ps.st = "START_RECORD" THEN ps
    \* input ended inside a quoted field: the fields so far are returned
    ELSE EmitRow(SaveField(ps))
  ELSE CsvNextLine(text, CsvLine(text, i, ps))

CsvResult(ps) == IF ps.err THEN Fail ELSE [ok |-> TRUE, rows |-> ps.rows]

\* list(csv.reader(io.StringIO(text))): [ok, rows]; ~ok is csv.Error
csv_reader(text) == CsvResult(CsvRun(text, 1, CsvStart))

(* --------------------------- csv.DictReader ---------------------------- *)
\* key under which DictReader stores the cells beyond the header (restkey=None)
RestKey == "<restkey None>"

RECURSIVE ZipDict(_, _, _, _)
\* dict(zip(fieldnames, row)): a repeated column name keeps the last cell
ZipDict(names, row, i, acc) ==
  IF i > Len(names) \/ i > Len(row) THEN acc
  ELSE ZipDict(names, row, i + 1, DictPut(acc, names[i], PyStr(row[i])))

RECURSIVE RestVal(_, _, _)
\* the header's columns beyond the row's cells get restval (None)
RestVal(names, i, acc) ==
  IF i > Len(names) THEN acc
  ELSE RestVal(names, i + 1, DictPut(acc, names[i], PyNone))

\* d is dict(zip(fieldnames, row))
DictRest(names, row, d) ==
  IF Len(names) < Len(row)
    THEN DictPut(d, RestKey,
                 PyList([k \in 1..(Len(row) - Len(names)) |->
                            PyStr(row[Len(names) + k])]))
  ELSE IF Len(names) > Len(row) THEN RestVal(names, Len(row) + 1, d)
  ELSE d

DictRow(names, row) == DictRest(names, row, ZipDict(names, row, 1, EmptyDict))

RECURSIVE DictRows(_, _, _, _)
\* blank rows ([]) are skipped
DictRows(names, rows, i, acc) ==
  IF i > Len(rows) THEN acc
  ELSE IF rows[i] = <<>> THEN DictRows(names, rows, i + 1, acc)
  ELSE DictRows(names, rows, i + 1, Append(acc, DictRow(names, rows[i])))

\* r is what the csv.reader produced
DictReaderRows(r) ==
  IF ~r.ok THEN Fail
  ELSE IF r.rows = <<>> THEN [ok |-> TRUE, rows |-> <<>>]
  ELSE [ok |-> TRUE, rows |-> DictRows(r.rows[1], r.rows, 2, <<>>)]

\* list(csv.DictReader(io.StringIO(text))): the first row is the header
DictReader(text) == DictReaderRows(csv_reader(text))

(* ----------------------- MapsResult.from_csv_row ----------------------- *)
\* row.get(name, default)
row_get(row, name, default) ==
  IF name \in DOMAIN row THEN row[name] ELSE default

\* try: return json.loads(val) / except json.JSONDecodeError: return default
LoadsOr(r, default) == IF r.ok THEN r.val ELSE default

ParseJsonVal(val, default) ==
  IF ~Truthy(val) THEN default ELSE LoadsOr(json_loads(val.s), default)

parse_json(row, field_name, default) ==
  ParseJsonVal(row_get(row, field_name, PyStr("")), default)

FloatZero == PyFloat("fin", FALSE, 0, 0)

\* try: return float(val) / except ValueError: return default
FloatOr(f) == IF f.ok THEN f.val ELSE FloatZero

ParseFloatVal(val) == IF ~Truthy(val) THEN FloatZero ELSE FloatOr(float(val.s))

parse_float(row, field_name) == ParseFloatVal(row_get(row, field_name, PyStr("")))

\* try: return int(float(val)) / except ValueError: return default.
\* n is what int() gave: an OverflowError is not caught
IntOr(n) ==
  IF n.ok THEN n
  ELSE IF n.exc = "ValueError" THEN [ok |-> TRUE, val |-> PyInt(0)]
  ELSE n

IntOfFloat(f) == IF ~f.ok THEN [ok |-> TRUE, val |-> PyInt(0)] ELSE IntOr(int(f.val))

ParseIntVal(val) ==
  IF ~Truthy(val) THEN [ok |-> TRUE, val |-> PyInt(0)] ELSE IntOfFloat(float(val.s))

\* returns [ok |-> TRUE, val |-> v] or [ok |-> FALSE, exc |-> e]
parse_int(row, field_name) == ParseIntVal(row_get(row, field_name, PyStr("")))

RECURSIVE split(_, _, _)
\* s.split(sep) for a one-character sep; cur is the piece being read
split(s, sep, cur) ==
  IF Len(s) = 0 THEN <<cur>>
  ELSE IF Head(s) = sep THEN <<cur>> \o split(Tail(s), sep, "")
  ELSE split(Tail(s), sep, cur \o Head(s))

\* mutant of StripAll: only the leading whitespace of a piece is removed
StripAll_left(parts) == PyList([k \in 1..Len(parts) |-> PyStr(LStrip(parts[k]))])

\* [x.strip() for x in parts]
StripAll(parts) == PyList([k \in 1..Len(parts) |-> PyStr(strip(parts[k]))])

\* e is row.get('emails')
EmailsOf(row, e) ==
  IF Truthy(e) /\ At(e.s, 1) = "["
    THEN parse_json(row, "emails", PyList(<<>>))
  ELSE IF Truthy(e) THEN StripAll(split(e.s, ",", ""))
  ELSE PyList(<<>>)

parse_emails(row) == EmailsOf(row, row_get(row, "emails", PyNone))

Str(row, col) == row_get(row, col, PyStr(""))
Dict(row, col) == parse_json(row, col, PyDict(EmptyDict))
List(row, col) == parse_json(row, col, PyList(<<>>))

\* the constructor call, once review_count's parse_int has returned rc
MakeResult(row, rc) ==
  IF ~rc.ok THEN rc
  ELSE [ok |-> TRUE, val |->
    [input_id |-> Str(row, "input_id"), link |-> Str(row, "link"),
     title |-> Str(row, "title"), category |-> Str(row, "category"),
     address |-> Str(row, "address"),
     open_hours |-> Dict(row, "open_hours"),
     popular_times |-> Dict(row, "popular_times"),
     web_site |-> Str(row, "website"), phone |-> Str(row, "phone"),
     plus_code |-> Str(row, "plus_code"),
     review_count |-> rc.val,
     review_rating |-> parse_float(row, "review_rating"),
     reviews_per_rating |-> Dict(row, "reviews_per_rating"),
     latitude |-> parse_float(row, "latitude"),
     longitude |-> parse_float(row, "longitude"),
     cid |-> Str(row, "cid"), status |-> Str(row, "status"),
     description |-> Str(row, "descriptions"),
     reviews_link |-> Str(row, "reviews_link"),
     thumbnail |-> Str(row, "thumbnail"), timezone |-> Str(row, "timezone"),
     price_range |-> Str(row, "price_range"), data_id |-> Str(row, "data_id"),
     place_id |-> Str(row, "place_id"),
     images |-> List(row, "images"), reservations |-> List(row, "reservations"),
     order_online |-> List(row, "order_online"),
     menu |-> Dict(row, "menu"), owner |-> Dict(row, "owner"),
     complete_address |-> Dict(row, "complete_address"),
     about |-> List(row, "about"), user_reviews |-> List(row, "user_reviews"),
     emails |-> parse_emails(row)]]

\* [ok |-> TRUE, val |-> the record] or [ok |-> FALSE, exc |-> e]
from_csv_row(row) == MakeResult(row, parse_int(row, "review_count"))

(* ------------------------- exceptions and str() ------------------------ *)
\* str(v) inside an f-string, for the values that reach one here
py_str(v) ==
  CASE v.t = "str"  -> v.s
    [] v.t = "null" -> "None"
    [] v.t = "num"  -> ToString(v.n)
    [] v.t = "bool" -> IF v.b THEN "True" ELSE "False"

\* an exception: its class, the source line that raises it, its message
Exc(type, line, msg) == [type |-> type, line |-> line, msg |-> msg]

Raise(e) == [ok |-> FALSE, exc |-> e]

(* ----------------------- the remote service ---------------------------- *)
\* What a network call can come back with: a connection failure or timeout
\* inside aiohttp (neterr), or an HTTP response.
NetErr == [neterr |-> TRUE]
Http(status, ctype, body) ==
  [neterr |-> FALSE, status |-> status, ctype |-> ctype, body |-> body]

Json == "application/json"
Plain == "text/plain"

CreateBodies ==
  { "{\"id\": \"J1\"}",
    "{\"name\":\"x\",\"id\":\"J2\"}",
    "{\"id\": null}",
    "{\"name\": \"x\"}",
    "[\"J1\"]",
    "{\"id\": \"J1\"",
    "" }

CreateResponses ==
  {NetErr}
    \cup {Http(201, Json, b) : b \in CreateBodies}
    \cup {Http(201, Plain, "{\"id\": \"J1\"}")}
    \cup {Http(st, Json, b) : st \in {200, 500}, b \in {"{\"id\": \"J1\"}", "busy"}}

StatusBodies ==
  { "{\"status\": \"ok\"}",
    "{\"status\":\"finished\",\"n\":2}",
    "{\"status\": \"success\"}",
    "{\"status\": \"failed\", \"error\": \"boom\"}",
    "{\"error\": \"no proxy\", \"status\": \"error\"}",
    "{\"status\": \"failed\"}",
    "{\"status\": \"pending\"}",
    "{\"status\": \"working\", \"error\": \"retrying\"}",
    "{\"status\": \"OK\"}",
    "{\"status\": \"ok \"}",
    "{\"status\": null}",
    "{}",
    "[]",
    "{\"status\": \"ok\"",
    "" }

StatusResponses ==
  {NetErr}
    \cup {Http(200, Json, b) : b \in StatusBodies}
    \cup {Http(200, Plain, "{\"status\": \"ok\"}")}
    \cup {Http(st, Json, b) : st \in {404, 500, 201},
                              b \in {"{\"status\": \"ok\"}", "not found"}}

CsvPayloads ==
  { "title,review_count\nA,12.0\nB,abc\n",
    "title,review_count\nA,7\n\nB\n",
    "title,review_count\nA,inf\n",
    "title\nA\rB\n",
    "title\n",
    "" }

DownloadResponses ==
  {NetErr}
    \cup {Http(200, "text/csv", b) : b \in CsvPayloads}
    \cup {Http(st, Plain, "title\nA\n") : st \in {204, 404, 500}}

(* ------------------------ aiohttp response.json() ---------------------- *)
\* ContentTypeError unless the content type is application/json; None for a
\* blank body; json.loads otherwise
LoadsOrRaise(r, resp, line) ==
  IF r.ok THEN r ELSE Raise(Exc("JSONDecodeError", line, resp.body))

response_json(resp, line) ==
  IF resp.ctype # Json THEN Raise(Exc("ContentTypeError", line, resp.body))
  ELSE IF strip(resp.body) = "" THEN [ok |-> TRUE, val |-> PyNone]
  ELSE LoadsOrRaise(json_loads(resp.body), resp, line)

(* ------------------------------ submit_job ----------------------------- *)
jobs_url == "/api/v1/jobs"

\* mutant of SubmitId: returns the job's name when the document has one
SubmitId_name(data) ==
  IF ~data.ok THEN data
  ELSE IF data.val.t = "obj" THEN
    IF "name" \in DOMAIN data.val.m
      THEN [ok |-> TRUE, val |-> data.val.m["name"]]
    ELSE IF "id" \in DOMAIN data.val.m
      THEN [ok |-> TRUE, val |-> data.val.m["id"]]
    ELSE Raise(Exc("KeyError", 204, "id"))
  ELSE Raise(Exc("TypeError", 204, ""))

\* data = await response.json(); return data['id']
SubmitId(data) ==
  IF ~data.ok THEN data
  ELSE IF data.val.t = "obj" THEN
    IF "id" \in DOMAIN data.val.m
      THEN [ok |-> TRUE, val |-> data.val.m["id"]]
      ELSE Raise(Exc("KeyError", 204, "id"))
  ELSE Raise(Exc("TypeError", 204, ""))

\* mutant of submit_job: any status below 300 counts as created
submit_job_2xx(resp) ==
  IF resp.neterr THEN Raise(Exc("ClientError", 199, ""))
  ELSE IF resp.status >= 300
    THEN Raise(Exc("RuntimeError", 202,
                   "Failed to submit job: " \o ToString(resp.status)
                      \o " " \o resp.body))
  ELSE SubmitId(response_json(resp, 203))

\* what submit_job does with the outcome of its POST:
\* [ok |-> TRUE, val |-> id] or [ok |-> FALSE, exc |-> e]
submit_job(resp) ==
  IF resp.neterr THEN Raise(Exc("ClientError", 199, ""))
  ELSE IF resp.status # 201
    THEN Raise(Exc("RuntimeError", 202,
                   "Failed to submit job: " \o ToString(resp.status)
                      \o " " \o resp.body))
  ELSE SubmitId(response_json(resp, 203))

(* ----------------------------- wait_for_job ---------------------------- *)
\* mutant of job_url: the placeholder is sent, not the id
job_url_raw(job_id) == jobs_url \o "/" \o "{job_id}"

\* f"{self.base_url}/api/v1/jobs/{job_id}", without the base url
job_url(job_id) == jobs_url \o "/" \o py_str(job_id)

\* data.get(key): None when the key is absent
dict_get(d, key) == IF key \in DOMAIN d.m THEN d.m[key] ELSE PyNone

\* mutant of deadline_passed: the deadline itself already counts as passed
deadline_passed_nonstrict(t, start, timeout) == t - start >= timeout

\* the loop's deadline test
deadline_passed(t, start, timeout) == t - start > timeout

\* mutant of status_class: the comparison ignores case and padding
status_class_loose(status) ==
  IF status \in {PyStr("finished"), PyStr("ok"), PyStr("OK"), PyStr("ok ")}
    THEN "success"
  ELSE IF status = PyStr("failed") \/ status = PyStr("error") THEN "failure"
  ELSE "continue"

\* the two tests on data.get('status')
status_class(status) ==
  IF status = PyStr("finished") \/ status = PyStr("ok") THEN "success"
  ELSE IF status = PyStr("failed") \/ status = PyStr("error") THEN "failure"
  ELSE "continue"

\* mutant of job_failed: the message is built from the status field
job_failed_status(job_id, data) ==
  Exc("RuntimeError", 228,
      "Job " \o py_str(job_id) \o " failed: " \o py_str(dict_get(data, "status")))

job_failed(job_id, data) ==
  Exc("RuntimeError", 228,
      "Job " \o py_str(job_id) \o " failed: " \o py_str(dict_get(data, "error")))

\* the tests on the status of a decoded payload
StatusStep(job_id, data, class) ==
  IF class = "success" THEN [k |-> "return", data |-> data]
  ELSE IF class = "failure" THEN [k |-> "raise", exc |-> job_failed(job_id, data)]
  ELSE [k |-> "sleep"]

\* data is what response.json() gave
PayloadStep(job_id, data) ==
  IF ~data.ok THEN [k |-> "raise", exc |-> data.exc]
  ELSE IF data.val.t # "obj"
    THEN [k |-> "raise", exc |-> Exc("AttributeError", 222, "get")]
  ELSE StatusStep(job_id, data.val, status_class(dict_get(data.val, "status")))

\* what one pass of the loop body does with the outcome of its GET:
\* [k |-> "return", data |-> d], [k |-> "raise", exc |-> e] or
\* [k |-> "sleep"]
poll_once(job_id, resp) ==
  IF resp.neterr THEN [k |-> "raise", exc |-> Exc("ClientError", 215, "")]
  ELSE IF resp.status = 404 THEN [k |-> "sleep"]
  ELSE IF resp.status # 200 THEN [k |-> "sleep"]
  ELSE PayloadStep(job_id, response_json(resp, 221))

(* ----------------------------- download_csv ---------------------------- *)
download_url(job_id) == job_url(job_id) \o "/download"

\* raise_for_status() raises for a status of 400 and above
download_csv(resp) ==
  IF resp.neterr THEN Raise(Exc("ClientError", 235, ""))
  ELSE IF resp.status >= 400
    THEN Raise(Exc("ClientResponseError", 236, ToString(resp.status)))
  ELSE [ok |-> TRUE, val |-> resp.body]

(* ------------------------ fetch_places: decoding ----------------------- *)
RECURSIVE decode_rows(_, _, _)

\* mutant of AppendRow: the record is put in front of the results
AppendRow_front(rows, i, results, r) ==
  IF r.ok THEN decode_rows(rows, i + 1, <<r.val>> \o results)
  ELSE Raise(Exc(r.exc, 119, ""))

\* results.append(MapsResult.from_csv_row(row)); r is from_csv_row's outcome
AppendRow(rows, i, results, r) ==
  IF r.ok THEN decode_rows(rows, i + 1, Append(results, r.val))
  ELSE Raise(Exc(r.exc, 119, ""))

\* the for loop over the reader: the first raising row ends it
decode_rows(rows, i, results) ==
  IF i > Len(rows) THEN [ok |-> TRUE, val |-> results]
  ELSE AppendRow(rows, i, results, from_csv_row(rows[i]))

DecodeReader(rd) ==
  IF ~rd.ok THEN Raise(Exc("csv.Error", 250, "")) ELSE decode_rows(rd.rows, 1, <<>>)

\* lines 248-253 of fetch_places
decode(csv_content) == DecodeReader(DictReader(csv_content))

(* ------------------------------- state --------------------------------- *)
VARIABLES
  timeout_s,    \* the client's total timeout (MapsScraperClient.timeout_s)
  pc,           \* where the fetch_places call stands
  now,          \* the clock read by time.time()
  start_time,   \* wait_for_job's start_time
  job_id,       \* fetch_places' job_id
  job_details,  \* fetch_places' job_details
  csv_content,  \* fetch_places' csv_content
  outcome,      \* how the fetch_places call ended
  trace,        \* history: the requests, responses, sleeps and decodes so far
  session,      \* the aiohttp.ClientSession the call holds: "open" or "closed"
  poll_interval,\* wait_for_job's poll_s argument
  row,          \* from_csv_row's argument, when the decoder is run on its own
  result,       \* what from_csv_row gave for row
  calls         \* the locals of each of two concurrent fetch_places calls

vars == <<timeout_s, pc, now, start_time, job_id, job_details, csv_content,
          outcome, trace, session, poll_interval, row, result, calls>>

\* what a fetch_places call on its own leaves alone
aside == <<poll_interval, row, result, calls>>

Unset == [t |-> "unset"]

Latencies == 0..MaxLatency

Req(op, method, url) == [e |-> "req", op |-> op, method |-> method, url |-> url]
Resp(op, r) == [e |-> "resp", op |-> op, r |-> r]
Slept(d) == [e |-> "sleep", d |-> d]
Decoded == [e |-> "decode"]

Raised(e) == [kind |-> "raised", exc |-> e]
Returned(v) == [kind |-> "returned", val |-> v]

Init ==
  /\ timeout_s \in 0..MaxTimeout
  /\ pc = "submit"
  /\ now = 0
  /\ start_time = 0
  /\ job_id = Unset
  /\ job_details = Unset
  /\ csv_content = Unset
  /\ outcome = [kind |-> "none"]
  /\ trace = <<>>
  /\ session = "closed"
  /\ poll_interval = poll_s
  /\ row = Unset
  /\ result = Unset
  /\ calls = <<>>

(* ------------------------------ actions -------------------------------- *)
\* fetch_places up to the top of wait_for_job's loop: the POST of submit_job,
\* its outcome, and on success wait_for_job's start_time = time.time() and
\* the ClientSession it opens before the loop (line 210); submit_job's own
\* session is closed when submit_job is left.
\* The clock counts from the start of the call; only the time that passes
\* inside wait_for_job is modelled.
SubmitJob ==
  /\ pc = "submit"
  /\ \E resp \in CreateResponses :
     \E r \in {submit_job(resp)} :
       /\ trace' = trace \o <<Req("create", "POST", jobs_url), Resp("create", resp)>>
       /\ IF r.ok
            THEN /\ job_id' = r.val
                 /\ start_time' = now
                 /\ session' = "open"
                 /\ pc' = "loop"
                 /\ outcome' = outcome
            ELSE /\ outcome' = Raised(r.exc)
                 /\ pc' = "done"
                 /\ UNCHANGED <<job_id, start_time, session>>
  /\ UNCHANGED <<timeout_s, now, job_details, csv_content, aside>>

\* top of the loop: the deadline test, then the GET is sent
PollRequest ==
  /\ pc = "loop"
  /\ IF deadline_passed(now, start_time, timeout_s)
       THEN /\ outcome' = Raised(Exc("TimeoutError", 213,
                                     "Job " \o py_str(job_id) \o " timed out"))
            /\ pc' = "done"
            /\ session' = "closed"
            /\ trace' = trace
       ELSE /\ trace' = Append(trace, Req("status", "GET", job_url(job_id)))
            /\ pc' = "get"
            /\ UNCHANGED <<outcome, session>>
  /\ UNCHANGED <<timeout_s, now, start_time, job_id, job_details, csv_content,
                 aside>>

\* mutant of PollResponse: the deadline is tested again when the response
\* arrives, before the payload is looked at
PollResponse_recheck ==
  /\ pc = "get"
  /\ \E resp \in StatusResponses, lat \in Latencies :
     \E r \in {poll_once(job_id, resp)} :
       /\ now' = now + lat
       /\ trace' = Append(trace, Resp("status", resp))
       /\ IF deadline_passed(now', start_time, timeout_s)
            THEN /\ outcome' = Raised(Exc("TimeoutError", 213,
                                          "Job " \o py_str(job_id) \o " timed out"))
                 /\ pc' = "done"
                 /\ session' = "closed"
                 /\ job_details' = job_details
            ELSE IF r.k = "return"
            THEN /\ job_details' = r.data
                 /\ pc' = "download"
                 /\ session' = "closed"
                 /\ outcome' = outcome
            ELSE IF r.k = "raise"
            THEN /\ outcome' = Raised(r.exc)
                 /\ pc' = "done"
                 /\ session' = "closed"
                 /\ job_details' = job_details
            ELSE /\ pc' = "sleep"
                 /\ UNCHANGED <<outcome, job_details, session>>
  /\ UNCHANGED <<timeout_s, start_time, job_id, csv_content, aside>>

\* the GET comes back after lat and the loop body handles it; leaving the
\* loop by return or raise leaves the "async with" and closes the session
PollResponseOn(responses, latencies) ==
  /\ pc = "get"
  /\ \E resp \in responses, lat \in latencies :
     \E r \in {poll_once(job_id, resp)} :
       /\ now' = now + lat
       /\ trace' = Append(trace, Resp("status", resp))
       /\ IF r.k = "return"
            THEN /\ job_details' = r.data
                 /\ pc' = "download"
                 /\ session' = "closed"
                 /\ outcome' = outcome
            ELSE IF r.k = "raise"
            THEN /\ outcome' = Raised(r.exc)
                 /\ pc' = "done"
                 /\ session' = "closed"
                 /\ job_details' = job_details
            ELSE /\ pc' = "sleep"
                 /\ UNCHANGED <<outcome, job_details, session>>
  /\ UNCHANGED <<timeout_s, start_time, job_id, csv_content, aside>>

PollResponse == PollResponseOn(StatusResponses, Latencies)

\* await asyncio.sleep(poll_s), inside the session's "async with"
Sleep ==
  /\ pc = "sleep"
  /\ now' = now + poll_interval
  /\ trace' = Append(trace, Slept(poll_interval))
  /\ pc' = "loop"
  /\ UNCHANGED <<timeout_s, start_time, job_id, job_details, csv_content,
                 outcome, session, aside>>

\* mutant of DownloadCsv: the response's status is not looked at
DownloadCsv_unchecked ==
  /\ pc = "download"
  /\ \E resp \in DownloadResponses :
       /\ trace' = trace \o <<Req("download", "GET", download_url(job_id)),
                              Resp("download", resp)>>
       /\ IF resp.neterr
            THEN /\ outcome' = Raised(Exc("ClientError", 235, ""))
                 /\ pc' = "done"
                 /\ csv_content' = csv_content
            ELSE /\ csv_content' = resp.body
                 /\ pc' = "decode"
                 /\ outcome' = outcome
  /\ UNCHANGED <<timeout_s, now, start_time, job_id, job_details, session,
                 aside>>

\* download_csv: the GET of the output and raise_for_status
DownloadCsv ==
  /\ pc = "download"
  /\ \E resp \in DownloadResponses :
     \E r \in {download_csv(resp)} :
       /\ trace' = trace \o <<Req("download", "GET", download_url(job_id)),
                              Resp("download", resp)>>
       /\ IF r.ok
            THEN /\ csv_content' = r.val
                 /\ pc' = "decode"
                 /\ outcome' = outcome
            ELSE /\ outcome' = Raised(r.exc)
                 /\ pc' = "done"
                 /\ csv_content' = csv_content
  /\ UNCHANGED <<timeout_s, now, start_time, job_id, job_details, session,
                 aside>>

\* the DictReader loop of fetch_places and its return
Decode ==
  /\ pc = "decode"
  /\ \E r \in {decode(csv_content)} :
       outcome' = IF r.ok THEN Returned(r.val) ELSE Raised(r.exc)
  /\ trace' = Append(trace, Decoded)
  /\ pc' = "done"
  /\ UNCHANGED <<timeout_s, now, start_time, job_id, job_details, csv_content,
                 session, aside>>

Next ==
  \/ SubmitJob
  \/ PollRequest
  \/ PollResponse
  \/ Sleep
  \/ DownloadCsv
  \/ Decode

Spec == Init /\ [][Next]_vars

(* ------------------- wait_for_job called on its own -------------------- *)
\* wait_for_job(job_id, poll_s) for a job that stays unfinished: every status
\* response is one the loop sleeps on, and the requests take no time
TransientResponses ==
  { Http(404, Json, "not found"), Http(200, Json, "{\"status\": \"pending\"}") }

InitPoll ==
  /\ timeout_s \in 0..MaxTimeout
  /\ poll_interval \in 1..MaxPoll
  /\ pc = "loop"
  /\ now = 0
  /\ start_time = 0
  /\ job_id = PyStr("J1")
  /\ job_details = Unset
  /\ csv_content = Unset
  /\ outcome = [kind |-> "none"]
  /\ trace = <<>>
  /\ session = "open"
  /\ row = Unset
  /\ result = Unset
  /\ calls = <<>>

PollTransient == PollResponseOn(TransientResponses, {0})

PollNext ==
  \/ PollRequest
  \/ PollTransient
  \/ Sleep

PollSpec == InitPoll /\ [][PollNext]_vars

(* ------------- two concurrent fetch_places calls on one client -------- *)
\* Both calls run on the same MapsScraperClient, whose attributes are
\* base_url and timeout_s (lines 162-163); everything else a call uses is a
\* local of its coroutines: job_id (240), url and start_time (207-208), the
\* sessions (198, 210, 234), results (248).  calls[c] holds the locals of
\* call c; the clock now is shared.  A call is suspended at its network calls
\* and at asyncio.sleep, and the other call may run then.  Time passes while
\* calls sleep; the network calls themselves take no time here.
Callers == {1, 2}

ConcCreateResponses ==
  { Http(201, Json, "{\"id\": \"J1\"}"), Http(201, Json, "{\"id\": \"J2\"}"),
    Http(500, Json, "busy") }

ConcStatusResponses ==
  { Http(200, Json, "{\"status\": \"ok\"}"),
    Http(200, Json, "{\"status\": \"pending\"}"),
    Http(200, Json, "{\"status\": \"failed\", \"error\": \"boom\"}") }

ConcDownloadResponses ==
  { Http(200, "text/csv", "title\nA\n"), Http(404, Plain, "title\nA\n") }

\* what a call takes in: a response, with the clock when it arrived; a
\* reading of the clock by the deadline test; the end of a sleep
Got(op, r, at) == [op |-> op, r |-> r, at |-> at]
Read(at) == [op |-> "clock", at |-> at]
Woke == [op |-> "sleep"]

\* the locals of a call that has not started; requests is what it has sent,
\* inputs what it has taken in, wake the time its sleep is due
NewCall ==
  [pc |-> "submit", start_time |-> 0, job_id |-> Unset,
   outcome |-> [kind |-> "none"], requests |-> <<>>, inputs |-> <<>>,
   wake |-> 0]

\* submit_job's POST answered by resp at time t; r is submit_job(resp)
Submitted(call, resp, r, t) ==
  IF r.ok
    THEN [call EXCEPT !.pc = "loop", !.job_id = r.val, !.start_time = t,
                      !.requests = Append(@, Req("create", "POST", jobs_url)),
                      !.inputs = Append(@, Got("create", resp, t))]
    ELSE [call EXCEPT !.pc = "done", !.outcome = Raised(r.exc),
                      !.requests = Append(@, Req("create", "POST", jobs_url)),
                      !.inputs = Append(@, Got("create", resp, t))]

\* the top of wait_for_job's loop at time t, for a wait that began at start
PollStarted(call, t, start, timeout) ==
  IF deadline_passed(t, start, timeout)
    THEN [call EXCEPT !.pc = "done",
                      !.outcome = Raised(Exc("TimeoutError", 213,
                                    "Job " \o py_str(call.job_id) \o " timed out")),
                      !.inputs = Append(@, Read(t))]
    ELSE [call EXCEPT !.pc = "get",
                      !.requests = Append(@, Req("status", "GET", job_url(call.job_id))),
                      !.inputs = Append(@, Read(t))]

\* the status GET answered by resp at time t; r is poll_once's verdict
Polled(call, resp, r, t, poll) ==
  IF r.k = "return"
    THEN [call EXCEPT !.pc = "download", !.inputs = Append(@, Got("status", resp, t))]
  ELSE IF r.k = "raise"
    THEN [call EXCEPT !.pc = "done", !.outcome = Raised(r.exc),
                      !.inputs = Append(@, Got("status", resp, t))]
  ELSE [call EXCEPT !.pc = "sleep", !.wake = t + poll,
                    !.inputs = Append(@, Got("status", resp, t))]

Awake(call) == [call EXCEPT !.pc = "loop", !.inputs = Append(@, Woke)]

\* d is what decoding the downloaded text gave
DecodeOutcome(d) == IF d.ok THEN Returned(d.val) ELSE Raised(d.exc)

\* the download GET answered by resp at time t, and the decoding that
\* follows it without a suspension; r is download_csv(resp)
Downloaded(call, resp, r, t) ==
  [call EXCEPT !.pc = "done",
               !.outcome = IF r.ok THEN DecodeOutcome(decode(r.val)) ELSE Raised(r.exc),
               !.requests = Append(@, Req("download", "GET", download_url(call.job_id))),
               !.inputs = Append(@, Got("download", resp, t))]

\* mutant of call_start: start_time is kept on the client, where the call
\* that entered wait_for_job last has written it
call_start_shared(c) ==
  CHOOSE t \in {calls[d].start_time : d \in {e \in Callers : calls[e].job_id # Unset}} :
    \A d \in {e \in Callers : calls[e].job_id # Unset} : calls[d].start_time <= t

\* wait_for_job's start_time, a local of call c (line 208)
call_start(c) == calls[c].start_time

InitCalls ==
  /\ timeout_s \in 0..MaxTimeout
  /\ calls = [c \in Callers |-> NewCall]
  /\ now = 0
  /\ poll_interval = poll_s
  /\ pc = "calls"
  /\ start_time = 0
  /\ job_id = Unset
  /\ job_details = Unset
  /\ csv_content = Unset
  /\ outcome = [kind |-> "none"]
  /\ trace = <<>>
  /\ session = "closed"
  /\ row = Unset
  /\ result = Unset

\* what the steps of the two calls leave alone
single == <<pc, start_time, job_id, job_details, csv_content, outcome, trace,
            session, row, result, timeout_s, poll_interval>>

CallSubmit(c) ==
  /\ calls[c].pc = "submit"
  /\ \E resp \in ConcCreateResponses :
       calls' = [calls EXCEPT ![c] = Submitted(calls[c], resp, submit_job(resp), now)]
  /\ UNCHANGED <<now, single>>

CallPollRequest(c) ==
  /\ calls[c].pc = "loop"
  /\ calls' = [calls EXCEPT ![c] = PollStarted(calls[c], now, call_start(c), timeout_s)]
  /\ UNCHANGED <<now, single>>

CallPollResponse(c) ==
  /\ calls[c].pc = "get"
  /\ \E resp \in ConcStatusResponses :
       calls' = [calls EXCEPT ![c] =
                   Polled(calls[c], resp, poll_once(calls[c].job_id, resp),
                          now, poll_interval)]
  /\ UNCHANGED <<now, single>>

\* asyncio.sleep ends when its time has come, or later
CallWake(c) ==
  /\ calls[c].pc = "sleep"
  /\ now' = IF now < calls[c].wake THEN calls[c].wake ELSE now
  /\ calls' = [calls EXCEPT ![c] = Awake(calls[c])]
  /\ UNCHANGED single

CallDownload(c) ==
  /\ calls[c].pc = "download"
  /\ \E resp \in ConcDownloadResponses :
       calls' = [calls EXCEPT ![c] = Downloaded(calls[c], resp, download_csv(resp), now)]
  /\ UNCHANGED <<now, single>>

ConcNext ==
  \/ \E c \in Callers : CallSubmit(c)
  \/ \E c \in Callers : CallPollRequest(c)
  \/ \E c \in Callers : CallPollResponse(c)
  \/ \E c \in Callers : CallWake(c)
  \/ \E c \in Callers : CallDownload(c)

ConcSpec == InitCalls /\ [][ConcNext]_vars

\* one step of a fetch_places call that runs alone, on the input ev
alone_step(call, ev, timeout, poll) ==
  IF ev.op = "create" THEN Submitted(call, ev.r, submit_job(ev.r), ev.at)
  ELSE IF ev.op = "clock" THEN PollStarted(call, ev.at, call.start_time, timeout)
  ELSE IF ev.op = "status"
    THEN Polled(call, ev.r, poll_once(call.job_id, ev.r), ev.at, poll)
  ELSE IF ev.op = "sleep" THEN Awake(call)
  ELSE Downloaded(call, ev.r, download_csv(ev.r), ev.at)

RECURSIVE run_alone(_, _, _, _, _)
\* the locals of a call that runs alone and takes in inputs[i], inputs[i+1], ...
run_alone(call, inputs, i, timeout, poll) ==
  IF i > Len(inputs) THEN call
  ELSE run_alone(alone_step(call, inputs[i], timeout, poll), inputs, i + 1,
                 timeout, poll)

(* ------------------ the nested-document encoder ------------------------ *)
\* The writer of the structured cells is not part of this client; the
\* encoding is the JSON text that json.loads (line 101) reads back.
\* A mapping with integer keys, as popular_times and reviews_per_rating are
\* typed (lines 29 and 35), is [t |-> "intobj", im |-> function on integers];
\* the empty mapping has no key type and is PyDict(EmptyDict).
PyIntDict(m) == IF DOMAIN m = {} THEN PyDict(EmptyDict) ELSE [t |-> "intobj", im |-> m]

RECURSIVE EncodeChars(_)
\* the escapes of a JSON string: \" and \\
EncodeChars(str) ==
  IF Len(str) = 0 THEN ""
  ELSE IF Head(str) \in {"\"", "\\"} THEN "\\" \o Head(str) \o EncodeChars(Tail(str))
  ELSE Head(str) \o EncodeChars(Tail(str))

EncodeString(str) == "\"" \o EncodeChars(str) \o "\""

RECURSIVE dumps(_)
RECURSIVE DumpElements(_, _)
RECURSIVE DumpMembers(_, _)
RECURSIVE DumpIntMembers(_, _)

\* the elements of list l from position i on
DumpElements(l, i) ==
  IF i > Len(l) THEN ""
  ELSE dumps(l[i]) \o (IF i < Len(l) THEN ", " ELSE "") \o DumpElements(l, i + 1)

\* member k of mapping m, then the members under the other keys
DumpMember(m, keys, k) ==
  EncodeString(k) \o ": " \o dumps(m[k])
    \o (IF keys = {k} THEN "" ELSE ", ") \o DumpMembers(m, keys \ {k})

DumpMembers(m, keys) ==
  IF keys = {} THEN "" ELSE DumpMember(m, keys, CHOOSE k \in keys : TRUE)

\* an integer key is written as the JSON string of its decimal text
DumpIntMember(m, keys, k) ==
  EncodeString(ToString(k)) \o ": " \o dumps(m[k])
    \o (IF keys = {k} THEN "" ELSE ", ") \o DumpIntMembers(m, keys \ {k})

DumpIntMembers(m, keys) ==
  IF keys = {} THEN "" ELSE DumpIntMember(m, keys, CHOOSE k \in keys : TRUE)

\* the JSON text of a structured value
dumps(v) ==
  CASE v.t = "str"    -> EncodeString(v.s)
    [] v.t = "num"    -> ToString(v.n)
    [] v.t = "null"   -> "null"
    [] v.t = "bool"   -> IF v.b THEN "true" ELSE "false"
    [] v.t = "list"   -> "[" \o DumpElements(v.l, 1) \o "]"
    [] v.t = "obj"    -> "{" \o DumpMembers(v.m, DOMAIN v.m) \o "}"
    [] v.t = "intobj" -> "{" \o DumpIntMembers(v.im, DOMAIN v.im) \o "}"

(* ---------------- the decoder on its own: from_csv_row ----------------- *)
\* a row with one column
Cell(col, text) == [x \in {col} |-> PyStr(text)]

NumericColumns == {"review_count", "review_rating", "latitude", "longitude"}

NumericTexts ==
  { "", "12.0", "abc", "7", " 42 ", "-3.9", "4.5", "inf", "-Infinity", "nan",
    "1.", ".5", "+2", "1,5", "0", "--1", "1.2.3" }

EmailTexts ==
  { "", "a@x.com, b@y.com", "[\"a@x.com\"]", "a@x.com", " a@x.com ,b@y.com,",
    "[\"a@x.com\"", "[]", ",", " [\"a@x.com\"]", "[\"a\", 1]", " ", "[ ,]" }

\* columns whose field is typed as a mapping, and as a sequence
DictColumns ==
  {"open_hours", "popular_times", "reviews_per_rating", "menu", "owner",
   "complete_address"}
ListColumns ==
  {"images", "reservations", "order_online", "about", "user_reviews"}

DocumentTexts ==
  { "", "{}", "[]", "{\"a\": \"b\"}", "[{\"k\": \"v\"}]", "null", "12", "\"x\"",
    "{\"a\": ", "[1, 2", "not json", "true" }

\* downloaded texts whose first data row DictReader hands to from_csv_row:
\* a row shorter than the header, a missing column, a row longer than the
\* header, a renamed column
RowPayloads ==
  { "title,phone\nA\n",
    "title,phone\nA,555\n",
    "title,descriptions,description\nA,d1,d2\n",
    "title\nA,extra\n",
    "title,emails\nA\n",
    "title,open_hours,review_count\nA\n" }

\* the rating histograms that are encoded: stars 1..MaxStars, counts 0..MaxCount
Histograms ==
  { PyIntDict(f) :
      f \in UNION {[S -> {PyInt(n) : n \in 0..MaxCount}] :
                     S \in SUBSET (1..MaxStars)} }

\* values of the structured fields, as the record types them (lines 28-53)
TypedValues(field) ==
  CASE field = "reviews_per_rating" -> Histograms
    [] field = "popular_times" ->
         {PyDict(EmptyDict)} \cup {PyDict([d \in {"Monday"} |-> h]) : h \in Histograms}
    [] field = "open_hours" ->
         { PyDict(EmptyDict),
           PyDict([d \in {"Monday"} |-> PyList(<<PyStr("9-12"), PyStr("13-17")>>)]),
           PyDict([d \in {"Monday", "Sunday"} |->
                    IF d = "Monday" THEN PyList(<<PyStr("13-17"), PyStr("9-12")>>)
                    ELSE PyList(<<>>)]) }
    [] field = "menu" ->
         { PyDict(EmptyDict),
           PyDict([k \in {"link", "source"} |->
                    IF k = "link" THEN PyStr("http://m/?a=1,b") ELSE PyStr("say \"hi\"")]) }
    [] field = "images" ->
         { PyList(<<>>),
           PyList(<<PyDict([k \in {"title"} |-> PyStr("a\\b")]),
                    PyDict([k \in {"title"} |-> PyStr("All")])>>) }
    [] field = "emails" ->
         { PyList(<<>>), PyList(<<PyStr("a@x.com")>>),
           PyList(<<PyStr("b@y.com"), PyStr("a@x.com")>>) }

StructuredFields ==
  {"reviews_per_rating", "popular_times", "open_hours", "menu", "images", "emails"}

\* the row whose cell for the field holds the encoded value
EncodedRow(field, v) == Cell(field, dumps(v))

\* the rows from_csv_row is run on
Rows ==
  {EmptyDict}
    \cup {Cell(c, t) : c \in NumericColumns, t \in NumericTexts}
    \cup {Cell("emails", t) : t \in EmailTexts}
    \cup {Cell(c, t) : c \in {"open_hours", "images"}, t \in DocumentTexts}
    \cup {DictReader(t).rows[1] : t \in RowPayloads}
    \cup UNION {{EncodedRow(f, v) : v \in TypedValues(f)} : f \in StructuredFields}

InitRow ==
  /\ row \in Rows
  /\ result = Unset
  /\ pc = "row"
  /\ timeout_s = 0
  /\ now = 0
  /\ start_time = 0
  /\ job_id = Unset
  /\ job_details = Unset
  /\ csv_content = Unset
  /\ outcome = [kind |-> "none"]
  /\ trace = <<>>
  /\ session = "closed"
  /\ poll_interval = poll_s
  /\ calls = <<>>

\* MapsResult.from_csv_row(row)
FromCsvRow ==
  /\ pc = "row"
  /\ result' = from_csv_row(row)
  /\ pc' = "done"
  /\ UNCHANGED <<timeout_s, now, start_time, job_id, job_details, csv_content,
                 outcome, trace, session, poll_interval, row, calls>>

DecoderSpec == InitRow /\ [][FromCsvRow]_vars

(* ============================ properties =============================== *)
TypeOK ==
  /\ pc \in {"submit", "loop", "get", "sleep", "download", "decode", "done"}
  /\ outcome.kind \in {"none", "raised", "returned"}
  /\ (pc = "done") <=> (outcome.kind # "none")

Events == 1..Len(trace)
Last == trace[Len(trace)]

IsReq(ev, op) == ev.e = "req" /\ ev.op = op
IsResp(ev, op) == ev.e = "resp" /\ ev.op = op

\* the state right after a status response was handled: every later step
\* appends to the trace or ends the call at the deadline test
JustPolled == Len(trace) > 0 /\ IsResp(Last, "status") /\ pc # "loop"

EndsWith(s, suffix) ==
  /\ Len(suffix) <= Len(s)
  /\ SubSeq(s, Len(s) - Len(suffix) + 1, Len(s)) = suffix

Contains(s, part) ==
  \E i \in 1..(Len(s) - Len(part) + 1) : SubSeq(s, i, i + Len(part) - 1) = part

\* a 200 response whose body is a JSON object with one of the given strings
\* as its status
BodyStatusIn(r, names) ==
  /\ ~r.neterr
  /\ r.status = 200
  /\ json_loads(r.body).ok
  /\ json_loads(r.body).val.t = "obj"
  /\ dict_get(json_loads(r.body).val, "status").t = "str"
  /\ dict_get(json_loads(r.body).val, "status").s \in names

\* a status response that is a JSON document holding an object
IsPayload(r) ==
  /\ ~r.neterr
  /\ r.status = 200
  /\ r.ctype = Json
  /\ json_loads(r.body).ok
  /\ json_loads(r.body).val.t = "obj"

Payload(r) == json_loads(r.body).val

\* a payload whose status field is one of the given strings
HasStatus(r, names) == BodyStatusIn(r, names) /\ r.ctype = Json

RaisedAt(line) == outcome.kind = "raised" /\ outcome.exc.line = line

\* C1: if no terminal status is ever observed, wait_for_job ends with the
\* timeout error and with nothing else, whatever the transient responses
\* (not-found, other non-200 codes, malformed payloads) were.
C1_NoTerminalEndsTimedOut ==
  ( /\ pc = "done"
    /\ job_id # Unset
    /\ \A i \in Events :
         IsResp(trace[i], "status") =>
           /\ ~trace[i].r.neterr
           /\ ~BodyStatusIn(trace[i].r,
                            {"finished", "ok", "success", "failed", "error"}) )
  => (outcome.kind = "raised" /\ outcome.exc.type = "TimeoutError")

\* C2: a payload whose status is "failed" or "error" ends wait_for_job with
\* the job-failed error (line 228) whose message carries the payload's error
\* text verbatim, and nothing follows that response: no request, no sleep.
C2_FailedRaisesJobFailed ==
  \A i \in Events :
    (IsResp(trace[i], "status") /\ HasStatus(trace[i].r, {"failed", "error"}))
    => /\ i = Len(trace)
       /\ pc = "done"
       /\ RaisedAt(228)
       /\ outcome.exc.type = "RuntimeError"
       /\ dict_get(Payload(trace[i].r), "error").t = "str"
            => EndsWith(outcome.exc.msg, dict_get(Payload(trace[i].r), "error").s)

C2_Witness ==
  /\ JustPolled
  /\ HasStatus(Last.r, {"error"})
  /\ dict_get(Payload(Last.r), "error") = PyStr("no proxy")
  /\ pc = "done"
  /\ outcome.kind = "raised"

\* wait_for_job's own raises
PollLines == {213, 215, 221, 222, 228}

\* C3: a payload whose status is the success marker makes wait_for_job return
\* that whole payload at once, also when the deadline has passed by the time
\* the response arrives; no sleep and no status request follows it.
C3_SuccessReturnsPayload ==
  \A i \in Events :
    (IsResp(trace[i], "status") /\ HasStatus(trace[i].r, {"finished", "ok"}))
    => /\ job_details = Payload(trace[i].r)
       /\ pc \in {"download", "decode", "done"}
       /\ outcome.kind = "raised" => outcome.exc.line \notin PollLines
       /\ \A j \in Events :
            j > i => (trace[j].e \in {"req", "resp"} /\ trace[j].op = "download")
                       \/ trace[j].e = "decode"

C3_Witness ==
  /\ JustPolled
  /\ HasStatus(Last.r, {"finished"})
  /\ pc = "download"
  /\ now - start_time > timeout_s
  /\ job_details = PyDict([k \in {"status", "n"} |->
                             IF k = "n" THEN PyInt(2) ELSE PyStr("finished")])

\* what wait_for_job did with the status response it has just handled
Observed ==
  IF pc = "sleep" THEN "continue"
  ELSE IF pc = "download" THEN "success"
  ELSE IF RaisedAt(228) THEN "failure"
  ELSE "other"

StatusText(r) == dict_get(Payload(r), "status").s

HasStringStatus(r) == IsPayload(r) /\ dict_get(Payload(r), "status").t = "str"

\* C4 as stated: "success" and "ok" are terminal success, "failed" and
\* "error" terminal failure, every other string non-terminal.
C4_AsStated ==
  (JustPolled /\ HasStringStatus(Last.r))
  => Observed = IF StatusText(Last.r) \in {"success", "ok"} THEN "success"
                ELSE IF StatusText(Last.r) \in {"failed", "error"} THEN "failure"
                ELSE "continue"

\* C4 amended: by exact string match "finished" and "ok" are terminal success,
\* "failed" and "error" terminal failure, and every other string
\* ("success" included) is non-terminal.
C4_ExactMatchClassification ==
  (JustPolled /\ HasStringStatus(Last.r))
  => Observed = IF StatusText(Last.r) \in {"finished", "ok"} THEN "success"
                ELSE IF StatusText(Last.r) \in {"failed", "error"} THEN "failure"
                ELSE "continue"

C4_Witness ==
  /\ JustPolled
  /\ HasStringStatus(Last.r)
  /\ StatusText(Last.r) = "OK"
  /\ pc = "sleep"

\* the transient conditions of the specification: not found yet, any other
\* non-200 code, a malformed status payload
Transient(r) ==
  /\ ~r.neterr
  /\ \/ r.status # 200
     \/ r.ctype # Json
     \/ ~json_loads(r.body).ok
     \/ json_loads(r.body).val.t # "obj"

\* C5: each transient condition is "not yet terminal": wait_for_job neither
\* returns nor raises on it, leaves the deadline as it is, sleeps poll_s once
\* and goes back to the top of the loop.
C5_TransientSleepsAndRetries ==
  [][ /\ (pc = "get" /\ Transient(trace'[Len(trace')].r))
         => /\ pc' = "sleep"
            /\ outcome' = outcome
            /\ start_time' = start_time
            /\ timeout_s' = timeout_s
      /\ pc = "sleep" => (pc' = "loop" /\ now' = now + poll_s) ]_vars

\* C6: a network call that times out or errors during polling is transient:
\* the loop does not end on it.
C6_NetworkErrorIsTransient ==
  (JustPolled /\ Last.r.neterr) => (pc = "sleep" /\ outcome.kind = "none")

\* the four fatal error kinds, by raise site: submission error (202),
\* job-timeout error (213), job-failed error (228), download error (236)
FatalKinds ==
  { <<"RuntimeError", 202>>, <<"TimeoutError", 213>>, <<"RuntimeError", 228>>,
    <<"ClientResponseError", 236>> }

\* C7: a fetch_places call against a service that answers every request
\* either returns the decoded sequence or raises one of the four fatal kinds.
C7_ReturnsOrOneOfFourErrors ==
  (pc = "done" /\ \A i \in Events : trace[i].e = "resp" => ~trace[i].r.neterr)
  => \/ outcome.kind = "returned"
     \/ /\ outcome.kind = "raised"
        /\ <<outcome.exc.type, outcome.exc.line>> \in FatalKinds

stage(ev) ==
  CASE ev.e = "decode" -> 4
    [] ev.e = "sleep" -> 2
    [] ev.op = "create" -> 1
    [] ev.op = "status" -> 2
    [] ev.op = "download" -> 3

\* a response on which its stage raises
StageFails(ev) ==
  \/ IsResp(ev, "create") /\ ~submit_job(ev.r).ok
  \/ IsResp(ev, "status") /\ poll_once(job_id, ev.r).k = "raise"
  \/ IsResp(ev, "download") /\ ~download_csv(ev.r).ok

StageError(ev) ==
  IF ev.op = "create" THEN submit_job(ev.r).exc
  ELSE IF ev.op = "status" THEN poll_once(job_id, ev.r).exc
  ELSE download_csv(ev.r).exc

\* C8: the stages run in the order submit, poll, download, decode; a stage
\* starts only after the one before it succeeded; the first failing stage
\* ends the call with that stage's error, nothing is requested after it and
\* no records are returned.
C8_StagesInOrderFailFast ==
  /\ \A i, j \in Events : i < j => stage(trace[i]) <= stage(trace[j])
  /\ \A i \in Events :
       /\ IsReq(trace[i], "status") =>
            \E j \in 1..(i - 1) :
              /\ IsResp(trace[j], "create")
              /\ submit_job(trace[j].r) = [ok |-> TRUE, val |-> job_id]
       /\ IsReq(trace[i], "download") =>
            /\ i > 1
            /\ IsResp(trace[i - 1], "status")
            /\ poll_once(job_id, trace[i - 1].r).k = "return"
       /\ trace[i].e = "decode" =>
            /\ i > 1
            /\ IsResp(trace[i - 1], "download")
            /\ download_csv(trace[i - 1].r) = [ok |-> TRUE, val |-> csv_content]
       /\ StageFails(trace[i]) =>
            /\ i = Len(trace)
            /\ pc = "done"
            /\ outcome = Raised(StageError(trace[i]))
  /\ RaisedAt(213) => \A i \in Events : stage(trace[i]) <= 2
  /\ outcome.kind = "returned" =>
       /\ Last = Decoded
       /\ \A i \in Events : ~StageFails(trace[i])
       /\ decode(csv_content) = [ok |-> TRUE, val |-> outcome.val]
  /\ (Len(trace) > 0 /\ Last = Decoded /\ ~decode(csv_content).ok) =>
       outcome = Raised(decode(csv_content).exc)

C8_Witness ==
  /\ pc = "done"
  /\ RaisedAt(236)
  /\ IsResp(Last, "download")
  /\ Last.r.status = 404
  /\ \E i \in Events : trace[i].e = "sleep"

CreateRequests == {i \in Events : IsReq(trace[i], "create")}

\* C9: on every create-job response whose status is not 201 submit_job
\* raises the submission error (line 202) carrying the status and the body,
\* and the create request is not sent again.
C9_Non201RaisesSubmissionError ==
  \A i \in Events :
    (IsResp(trace[i], "create") /\ ~trace[i].r.neterr /\ trace[i].r.status # 201)
    => /\ i = Len(trace)
       /\ pc = "done"
       /\ RaisedAt(202)
       /\ outcome.exc.type = "RuntimeError"
       /\ Contains(outcome.exc.msg, ToString(trace[i].r.status))
       /\ EndsWith(outcome.exc.msg, trace[i].r.body)
       /\ Cardinality(CreateRequests) = 1

C9_Witness ==
  /\ pc = "done"
  /\ Last = Resp("create", Http(200, Json, "{\"id\": \"J1\"}"))
  /\ outcome = Raised(Exc("RuntimeError", 202,
                          "Failed to submit job: 200 {\"id\": \"J1\"}"))

\* a 201 JSON response holding an object with a string id
WellFormedCreate(r) ==
  /\ ~r.neterr
  /\ r.status = 201
  /\ r.ctype = Json
  /\ json_loads(r.body).ok
  /\ json_loads(r.body).val.t = "obj"
  /\ dict_get(json_loads(r.body).val, "id").t = "str"

\* C10: on a well-formed create-job response with a valid identifier
\* submit_job returns exactly that identifier, having sent one request.
C10_WellFormedCreateReturnsId ==
  \A i \in Events :
    (IsResp(trace[i], "create") /\ WellFormedCreate(trace[i].r))
    => /\ job_id = dict_get(json_loads(trace[i].r.body).val, "id")
       /\ pc # "submit"
       /\ ~(outcome.kind = "raised" /\ outcome.exc.line \in {199, 202, 203, 204})
       /\ Cardinality(CreateRequests) = 1
       /\ i = 2

C10_Witness ==
  /\ pc = "loop"
  /\ Len(trace) = 2
  /\ Last.r.body = "{\"name\":\"x\",\"id\":\"J2\"}"
  /\ job_id = PyStr("J2")

(* ================== properties of the decoder ========================== *)
\* C11: from_csv_row never fails: for every row (missing columns, malformed
\* numeric text, malformed nested-document text in any cell) it raises no
\* error and yields a record.
C11_FromCsvRowNeverFails == pc = "done" => result.ok

ScalarFields ==
  {"input_id", "link", "title", "category", "address", "web_site", "phone",
   "plus_code", "cid", "status", "description", "reviews_link", "thumbnail",
   "timezone", "price_range", "data_id", "place_id"}

\* every field of the record holds a value of the kind it is declared with
FullyPopulated(rec) ==
  /\ \A f \in ScalarFields : rec[f].t = "str"
  /\ rec.review_count.t = "num"
  /\ \A f \in {"review_rating", "latitude", "longitude"} : rec[f].t = "float"
  /\ \A f \in DictColumns : rec[f].t \in {"obj", "intobj"}
  /\ \A f \in ListColumns \cup {"emails"} : rec[f].t = "list"

\* C12: every record the decoder produces is fully populated: scalar fields
\* are strings, numeric fields numbers, structured fields mappings or
\* sequences as declared, and no field is null, also when the row omits a
\* column, is shorter than the header, or holds a cell that cannot encode the
\* field.
C12_FullyPopulated == (pc = "done" /\ result.ok) => FullyPopulated(result.val)

\* the positions of the commas of a text
CommaAt(text) == {i \in 1..Len(text) : At(text, i) = ","}

\* the position of the k-th comma: 0 stands before the text, Len + 1 after it
Cut(text, k) ==
  IF k = 0 THEN 0
  ELSE IF k > Cardinality(CommaAt(text)) THEN Len(text) + 1
  ELSE CHOOSE i \in CommaAt(text) :
         Cardinality({j \in CommaAt(text) : j < i}) = k - 1

\* what stands between the (k-1)-th and the k-th comma
Piece(text, k) ==
  IF Cut(text, k - 1) + 1 > Cut(text, k) - 1 THEN ""
  ELSE SubSeq(text, Cut(text, k - 1) + 1, Cut(text, k) - 1)

\* the positions of a text that hold no whitespace
Inked(text) == {i \in 1..Len(text) : At(text, i) \notin PyWs}

\* the text from its first to its last non-blank character
Trimmed(text) ==
  IF Inked(text) = {} THEN ""
  ELSE SubSeq(text,
              CHOOSE i \in Inked(text) : \A j \in Inked(text) : i <= j,
              CHOOSE i \in Inked(text) : \A j \in Inked(text) : i >= j)

EmailsCell == row_get(row, "emails", PyNone)

\* C13: the emails field follows the three-way policy: an empty or absent
\* cell gives the empty sequence; a cell that begins with "[" is parsed as a
\* nested document (the empty sequence when the parse fails); any other cell
\* is cut at its commas, each piece trimmed, in order.
C13_EmailsThreeWayPolicy ==
  (pc = "done" /\ result.ok) =>
    /\ IF ~Truthy(EmailsCell) THEN result.val.emails = PyList(<<>>)
       ELSE IF At(EmailsCell.s, 1) = "["
         THEN result.val.emails =
                IF json_loads(EmailsCell.s).ok THEN json_loads(EmailsCell.s).val
                ELSE PyList(<<>>)
       ELSE /\ result.val.emails.t = "list"
            /\ Len(result.val.emails.l) = Cardinality(CommaAt(EmailsCell.s)) + 1
            /\ \A k \in 1..Len(result.val.emails.l) :
                 result.val.emails.l[k] = PyStr(Trimmed(Piece(EmailsCell.s, k)))
    /\ row = Cell("emails", "a@x.com, b@y.com")
         => result.val.emails = PyList(<<PyStr("a@x.com"), PyStr("b@y.com")>>)
    /\ row = Cell("emails", "[\"a@x.com\"]")
         => result.val.emails = PyList(<<PyStr("a@x.com")>>)

C13_Witness ==
  /\ pc = "done"
  /\ row = Cell("emails", " a@x.com ,b@y.com,")
  /\ result.ok
  /\ result.val.emails = PyList(<<PyStr("a@x.com"), PyStr("b@y.com"), PyStr("")>>)

\* the zero default of a numeric column
Zero(col) == IF col = "review_count" THEN PyInt(0) ELSE FloatZero

\* C14: for every cell text of a numeric field decoding swallows parse
\* errors: an empty cell or a text that cannot be parsed to the field's
\* numeric type gives the zero default and no error is raised; "12.0" gives
\* the review_count 12 and "abc" gives 0.
C14_NumericParseErrorsSwallowed ==
  pc = "done" =>
    /\ result.ok
    /\ \A c \in NumericColumns, t \in NumericTexts :
         row = Cell(c, t) =>
           /\ (t = "" \/ ~float(t).ok) => result.val[c] = Zero(c)
           /\ (c = "review_count" /\ float(t).ok /\ float(t).val.k # "fin")
                => result.val[c] = PyInt(0)
           /\ (c = "review_count" /\ t = "12.0") => result.val[c] = PyInt(12)
           /\ (c = "review_count" /\ t = "abc") => result.val[c] = PyInt(0)

\* C15: round trip: a structured field's value, as the record types it,
\* encoded to its nested-document text and decoded back by from_csv_row is
\* the same value: same mapping keys, same list order, same scalars.
C15_RoundTrip ==
  pc = "done" =>
    \A f \in StructuredFields : \A v \in TypedValues(f) :
      row = EncodedRow(f, v) => (result.ok /\ result.val[f] = v)

(* ============== properties of fetch_places, continued ================== *)
\* the positions of the data rows among the rows csv.reader yields for the
\* payload: after the header row, and not blank
DataRowAt(rows) == {i \in 2..Len(rows) : rows[i] # <<>>}

\* the k-th data row
DataRow(rows, k) ==
  rows[CHOOSE i \in DataRowAt(rows) :
         Cardinality({j \in DataRowAt(rows) : j < i}) = k - 1]

\* record k is decoded from data row k, and its title is that row's cell
\* under the title column
RecordOfRow(record, header, datarow) ==
  /\ from_csv_row(DictRow(header, datarow)) = [ok |-> TRUE, val |-> record]
  /\ \A c \in 1..Len(datarow) :
       (c <= Len(header) /\ header[c] = "title")
         => record.title = PyStr(datarow[c])

RecordsOfRows(records, rows) ==
  /\ Len(records) = Cardinality(DataRowAt(rows))
  /\ \A k \in 1..Len(records) : RecordOfRow(records[k], rows[1], DataRow(rows, k))

\* C16: on full success fetch_places returns one record per data row of the
\* downloaded payload, in the order of the rows, each decoded from the row at
\* its position; the header row gives no record.
C16_OneRecordPerDataRow ==
  outcome.kind = "returned"
    => RecordsOfRows(outcome.val, csv_reader(csv_content).rows)

C16_Witness ==
  /\ outcome.kind = "returned"
  /\ csv_content = "title,review_count\nA,7\n\nB\n"
  /\ Len(outcome.val) = 2
  /\ outcome.val[1].title = PyStr("A")
  /\ outcome.val[2].title = PyStr("B")

\* C18: connection resources are held only during a network call: while the
\* poll loop sleeps between two status requests the call holds no open
\* session.
C18_NoSessionWhileSleeping == pc = "sleep" => session = "closed"

StatusRequests == {i \in Events : IsReq(trace[i], "status")}

\* the job's lifecycle state as fetch_places sees it
lifecycle ==
  IF job_id = Unset THEN "Pending"
  ELSE IF RaisedAt(213) THEN "TimedOut"
  ELSE IF RaisedAt(228) THEN "Failed"
  ELSE IF job_details # Unset THEN "Succeeded"
  ELSE IF StatusRequests = {} THEN "Submitted"
  ELSE "Polling"

Rank(l) ==
  CASE l = "Pending" -> 0
    [] l = "Submitted" -> 1
    [] l = "Polling" -> 2
    [] l \in {"Succeeded", "Failed", "TimedOut"} -> 3

\* every status and download request so far goes to the job job_id
RequestsCarryId ==
  \A i \in Events :
    /\ IsReq(trace[i], "status") =>
         trace[i].url = "/api/v1/jobs/" \o py_str(job_id)
    /\ IsReq(trace[i], "download") =>
         trace[i].url = "/api/v1/jobs/" \o py_str(job_id) \o "/download"

\* job_id, once assigned, is what submit_job returned for the create response
IdFromCreate ==
  job_id # Unset =>
    /\ Len(trace) >= 2
    /\ IsResp(trace[2], "create")
    /\ submit_job(trace[2].r) = [ok |-> TRUE, val |-> job_id]

\* C19: the lifecycle moves only forward through Pending, Submitted, Polling
\* and then Succeeded, Failed or TimedOut; the three terminal states are
\* absorbing and once wait_for_job has returned or raised no status request
\* is issued; the id is the one the create call returned, is immutable once
\* assigned, and every status and download request carries it.  (The id is
\* looked up in the state a step starts from; it and the history before it
\* are unchanged by the step.)
C19_LifecycleForwardOnly ==
  [][ /\ Rank(lifecycle') >= Rank(lifecycle)
      /\ Rank(lifecycle) = 3 => lifecycle' = lifecycle
      /\ pc \in {"download", "decode", "done"} => StatusRequests' = StatusRequests
      /\ job_id # Unset => job_id' = job_id
      /\ SubSeq(trace', 1, Len(trace)) = trace
      /\ IdFromCreate
      /\ RequestsCarryId' ]_vars

C19_Witness ==
  /\ lifecycle = "TimedOut"
  /\ Cardinality(StatusRequests) = 2
  /\ trace[3].url = "/api/v1/jobs/J2"

\* C20: when every status response is transient, requests and deadline tests
\* take no time and each sleep lasts poll_interval, wait_for_job with total
\* timeout timeout_s issues timeout_s \div poll_interval + 1 status requests
\* and then raises the timeout error; the deadline test is strict: a request
\* is issued when the elapsed time equals timeout_s, none once it is larger.
C20_PollCount ==
  /\ RaisedAt(213)
       => Cardinality(StatusRequests) = (timeout_s \div poll_interval) + 1
  /\ pc = "get" => now - start_time <= timeout_s
  /\ (pc = "loop" /\ now - start_time <= timeout_s) => outcome.kind = "none"
  /\ pc = "done" => (RaisedAt(213) /\ now - start_time > timeout_s)

C20_Witness ==
  /\ RaisedAt(213)
  /\ timeout_s = 4
  /\ poll_interval = 2
  /\ Cardinality(StatusRequests) = 3
  /\ now = 6

(* ================= properties of concurrent calls ====================== *)
\* C17: two fetch_places calls on one client share no mutable state: under
\* every interleaving at their network calls and sleeps, each call's
\* requests, job id, deadline (its start_time against the client's
\* timeout_s) and outcome are those of the same call run alone on the
\* responses and clock readings it received.
C17_CallsDoNotInterfere ==
  \A c \in Callers :
    /\ calls[c] = run_alone(NewCall, calls[c].inputs, 1, timeout_s, poll_s)
    /\ \A i \in 1..Len(calls[c].requests) :
         calls[c].requests[i].op # "create"
           => Contains(calls[c].requests[i].url, py_str(calls[c].job_id))

C17_Witness ==
  /\ calls[1].pc = "done"
  /\ calls[2].pc = "done"
  /\ calls[1].job_id = PyStr("J1")
  /\ calls[2].job_id = PyStr("J2")
  /\ calls[1].start_time < calls[2].start_time
  /\ calls[1].outcome.kind = "raised"
  /\ calls[1].outcome.exc.line = 213
  /\ calls[2].outcome.kind = "returned"
  /\ Len(calls[1].requests) = 3
====
